---- MODULE Spec2Model ----
(***************************************************************************)
(* Model of the InfraGuardian review pipeline (backend/app): the tool      *)
(* runner and findings aggregator of runner.py, the four pipeline stages   *)
(* of graph.py, and the AgentState of models.py.                           *)
(*                                                                         *)
(* Python values are modelled as records.  A Python dict is a record       *)
(* whose fields are the keys present; a JSON value is a record tagged by   *)
(* its type in field t (None, int, str, list, dict), a JSON object         *)
(* carrying its keys as further fields.  Text that the code inspects       *)
(* character by character (severities, cost figures) is a sequence of      *)
(* one-character strings.  A Python exception leaving a function is the    *)
(* flag `raised` of the function's outcome.                                *)
(***************************************************************************)
EXTENDS Integers, Sequences, FiniteSets, TLC

(***************************************************************************)
(* Bounds of the model.                                                    *)
(***************************************************************************)
MaxPlanLen == 3     \* longest plan the planning service returns
MaxFindings == 2    \* longest list of findings in a tool's JSON output

(***************************************************************************)
(* Python values.                                                          *)
(***************************************************************************)
\* None, which is also what JSON null parses to
None == [t |-> "None"]
EmptyDict == [k \in {} |-> None]

JInt(n) == [t |-> "int", i |-> n]
JStr(chars) == [t |-> "str", s |-> chars]
JList(items) == [t |-> "list", l |-> items]
JDict == [t |-> "dict"]
PyFloat(n) == [t |-> "float", f |-> n]

\* dict.get(key, default) on a Python dict or a JSON object
py_get(d, key, default) == IF key \in DOMAIN d THEN d[key] ELSE default

\* the keys of a JSON object
py_keys(j) == DOMAIN j \ {"t"}

\* bool(value): None, 0, "", [] and {} are false
py_truthy(j) ==
    CASE j.t = "None" -> FALSE
      [] j.t = "int" -> j.i # 0
      [] j.t = "str" -> j.s # <<>>
      [] j.t = "list" -> j.l # <<>>
      [] j.t = "dict" -> py_keys(j) # {}
      [] OTHER -> FALSE

\* whether iter(value) and len(value) are defined
py_iterable(j) == j.t \in {"list", "str", "dict"}

\* list(value): the elements of a list, the characters of a str, the keys
\* of a dict (every key is a str)
py_elements(j) ==
    CASE j.t = "list" -> j.l
      [] j.t = "str" -> [n \in 1..Len(j.s) |-> JStr(<<j.s[n]>>)]
      [] j.t = "dict" -> [n \in 1..Cardinality(py_keys(j)) |-> JStr(<<"k">>)]
      [] OTHER -> <<>>

LowerChars == <<"a","b","c","d","e","f","g","h","i","j","k","l","m",
                "n","o","p","q","r","s","t","u","v","w","x","y","z">>
UpperChars == <<"A","B","C","D","E","F","G","H","I","J","K","L","M",
                "N","O","P","Q","R","S","T","U","V","W","X","Y","Z">>

upper_char(c) ==
    IF \E n \in 1..26 : LowerChars[n] = c
    THEN UpperChars[CHOOSE n \in 1..26 : LowerChars[n] = c]
    ELSE c

\* str.upper()
str_upper(chars) == [n \in 1..Len(chars) |-> upper_char(chars[n])]

Digits == <<"0","1","2","3","4","5","6","7","8","9">>

is_digit(c) == \E n \in 1..10 : Digits[n] = c

digit_value(c) == (CHOOSE n \in 1..10 : Digits[n] = c) - 1

RECURSIVE decimal_value(_)
decimal_value(chars) ==
    IF chars = <<>> THEN 0
    ELSE 10 * decimal_value(SubSeq(chars, 1, Len(chars) - 1))
         + digit_value(chars[Len(chars)])

\* float(value) inside try/except: a number, or the text of a whole number;
\* anything else raises ValueError or TypeError
py_float(j) ==
    CASE j.t = "int" -> [raised |-> FALSE, val |-> j.i]
      [] j.t = "str" /\ j.s # <<>> /\ \A n \in 1..Len(j.s) : is_digit(j.s[n])
           -> [raised |-> FALSE, val |-> decimal_value(j.s)]
      [] OTHER -> [raised |-> TRUE, val |-> 0]

(***************************************************************************)
(* runner.py: external processes.                                          *)
(*                                                                         *)
(* A process behaviour `proc` is what the operating system does with one   *)
(* subprocess.run call: spawn tells whether the process could be started,  *)
(* code is its exit status, stdout its output (text "json" carrying the    *)
(* document it encodes, or text that is not JSON) and stderr its error     *)
(* text (the exception text when it could not be started).                 *)
(***************************************************************************)
_safe_json(stdout) == IF stdout.text = "json" THEN stdout.doc ELSE None

_run(cmd, proc) ==
    IF proc.spawn
    THEN [ok |-> proc.code = 0, code |-> proc.code,
          stdout |-> proc.stdout, stderr |-> proc.stderr, cmd |-> cmd]
    ELSE [ok |-> FALSE, code |-> -1,
          stdout |-> [text |-> ""], stderr |-> proc.stderr, cmd |-> cmd]

\* terraform_plan that starts plan and show whatever the step before did
terraform_plan_runs_all(which, procs) ==
    IF ~which
    THEN [ret |-> [ok |-> FALSE, stderr |-> "terraform not found"],
          spawned |-> <<>>]
    ELSE LET init == _run(<<"terraform", "init", "-backend=false">>, procs[1])
             plan == _run(<<"terraform", "plan", "-no-color",
                            "-out", "tf.plan">>, procs[2])
             show == _run(<<"terraform", "show", "-json", "tf.plan">>,
                          procs[3])
         IN  [ret |-> [ok |-> py_get(show, "ok", FALSE),
                       json |-> _safe_json(show.stdout), raw |-> show],
              spawned |-> <<init, plan, show>>]

\* terraform_plan(repo): ret is the value returned, spawned the processes
\* started, in order.  which is _which("terraform"); procs[1..3] are the
\* behaviours of the init, plan and show processes.
terraform_plan(which, procs) ==
    IF ~which
    THEN [ret |-> [ok |-> FALSE, stderr |-> "terraform not found"],
          spawned |-> <<>>]
    ELSE LET init == _run(<<"terraform", "init", "-backend=false">>, procs[1])
         IN  IF ~py_get(init, "ok", FALSE)
             THEN [ret |-> init, spawned |-> <<init>>]
             ELSE LET plan == _run(<<"terraform", "plan", "-no-color",
                                     "-out", "tf.plan">>, procs[2])
                  IN  IF ~py_get(plan, "ok", FALSE)
                      THEN [ret |-> plan, spawned |-> <<init, plan>>]
                      ELSE LET show == _run(<<"terraform", "show", "-json",
                                              "tf.plan">>, procs[3])
                           IN  [ret |-> [ok |-> py_get(show, "ok", FALSE),
                                         json |-> _safe_json(show.stdout),
                                         raw |-> show],
                                spawned |-> <<init, plan, show>>]

tfsec_scan(which, proc) ==
    IF ~which
    THEN [ok |-> FALSE, stderr |-> "tfsec not found"]
    ELSE LET res == _run(<<"tfsec", "--format", "json", "--no-color", ".">>,
                         proc)
         IN  [ok |-> py_get(res, "ok", FALSE),
              json |-> _safe_json(res.stdout), raw |-> res]

checkov_scan(which, proc) ==
    IF ~which
    THEN [ok |-> FALSE, stderr |-> "checkov not found"]
    ELSE LET res == _run(<<"checkov", "-d", ".", "-o", "json">>, proc)
         IN  [ok |-> py_get(res, "ok", FALSE),
              json |-> _safe_json(res.stdout), raw |-> res]

infracost_breakdown(which, proc) ==
    IF ~which
    THEN [ok |-> FALSE, stderr |-> "infracost not found"]
    ELSE LET res == _run(<<"infracost", "breakdown", "--path", ".",
                           "--format", "json">>, proc)
         IN  [ok |-> py_get(res, "ok", FALSE),
              json |-> _safe_json(res.stdout), raw |-> res]

(***************************************************************************)
(* runner.py: aggregate.                                                   *)
(***************************************************************************)
TopN == 5

CRITICAL == <<"C","R","I","T","I","C","A","L">>
HIGH == <<"H","I","G","H">>
MEDIUM == <<"M","E","D","I","U","M">>
LOW == <<"L","O","W">>
UNKNOWN == <<"U","N","K","N","O","W","N">>

Buckets == {CRITICAL, HIGH, MEDIUM, LOW, UNKNOWN}

ZeroCounts == [b \in Buckets |-> 0]

\* Text built by an f-string is the sequence of its fragments: the literal
\* pieces and the formatted values.
Lit(text) == [lit |-> text]

\* f"{tool}: {stderr}"
Warning(tool, stderr) == <<Lit(tool), Lit(": "), Lit(stderr)>>

\* bool(result.get("stderr")): an absent key gives None, which is false
stderr_truthy(result) == py_get(result, "stderr", "") # ""

\* lines 55-61: the findings value taken from the tfsec result
tfsec_findings(results) ==
    LET tfsec == py_get(results, "tfsec", EmptyDict)
        tfj == py_get(tfsec, "json", None)
    IN  IF py_truthy(tfj)
        THEN IF tfj.t = "dict" THEN py_get(tfj, "results", JList(<<>>))
             ELSE JList(<<>>)
        ELSE JList(<<>>)

tfsec_warnings(results) ==
    LET tfsec == py_get(results, "tfsec", EmptyDict)
    IN  IF ~py_truthy(py_get(tfsec, "json", None)) /\ stderr_truthy(tfsec)
        THEN <<Warning("tfsec", tfsec.stderr)>>
        ELSE <<>>

\* checkov_findings += fw.get("results", {}).get("failed_checks", [])
failed_checks_of(fw) ==
    IF fw.t # "dict" THEN [raised |-> TRUE, items |-> <<>>]
    ELSE LET r == py_get(fw, "results", JDict)
         IN  IF r.t # "dict" THEN [raised |-> TRUE, items |-> <<>>]
             ELSE LET fc == py_get(r, "failed_checks", JList(<<>>))
                  IN  IF ~py_iterable(fc) THEN [raised |-> TRUE, items |-> <<>>]
                      ELSE [raised |-> FALSE, items |-> py_elements(fc)]

RECURSIVE checkov_frameworks(_, _)
checkov_frameworks(cj, acc) ==
    IF cj = <<>> THEN [raised |-> FALSE, items |-> acc]
    ELSE LET one == failed_checks_of(Head(cj))
         IN  IF one.raised THEN one
             ELSE checkov_frameworks(Tail(cj), acc \o one.items)

\* lines 64-72: the list of findings collected from the checkov result
checkov_findings(results) ==
    LET checkov == py_get(results, "checkov", EmptyDict)
        cj == py_get(checkov, "json", None)
    IN  IF py_truthy(cj)
        THEN IF cj.t = "list" THEN checkov_frameworks(cj.l, <<>>)
             ELSE IF cj.t = "dict" THEN failed_checks_of(cj)
             ELSE [raised |-> FALSE, items |-> <<>>]
        ELSE [raised |-> FALSE, items |-> <<>>]

checkov_warnings(results) ==
    LET checkov == py_get(results, "checkov", EmptyDict)
    IN  IF ~py_truthy(py_get(checkov, "json", None)) /\ stderr_truthy(checkov)
        THEN <<Warning("checkov", checkov.stderr)>>
        ELSE <<>>

\* lines 81-88: the loop over the projects of the infracost document
RECURSIVE infracost_projects(_, _)
infracost_projects(projects, total) ==
    IF projects = <<>> THEN [raised |-> FALSE, total |-> total]
    ELSE LET p == Head(projects)
         IN  IF p.t # "dict" THEN [raised |-> TRUE, total |-> total]
             ELSE LET s == py_get(p, "summary", JDict)
                  IN  IF s.t # "dict" THEN [raised |-> TRUE, total |-> total]
                      ELSE LET c == py_get(s, "totalMonthlyCost", None)
                               val == py_float(c)
                           IN  IF c.t # "None" /\ ~val.raised
                               THEN infracost_projects(Tail(projects),
                                        IF total.t = "None"
                                        THEN PyFloat(val.val)
                                        ELSE PyFloat(total.f + val.val))
                               ELSE infracost_projects(Tail(projects), total)

infracost_json_used(results) ==
    LET infr == py_get(results, "infracost", EmptyDict)
        ij == py_get(infr, "json", None)
    IN  py_truthy(ij) /\ ij.t = "dict"

\* lines 77-88: total_monthly
infracost_total(results) ==
    LET infr == py_get(results, "infracost", EmptyDict)
    IN  IF infracost_json_used(results)
        THEN LET projects == py_get(infr.json, "projects", JList(<<>>))
             IN  IF ~py_iterable(projects)
                 THEN [raised |-> TRUE, total |-> None]
                 ELSE infracost_projects(py_elements(projects), None)
        ELSE [raised |-> FALSE, total |-> None]

\* aggregate without the warning of the cost tool
infracost_warnings_none(results) == <<>>

infracost_warnings(results) ==
    LET infr == py_get(results, "infracost", EmptyDict)
    IN  IF ~infracost_json_used(results) /\ stderr_truthy(infr)
        THEN <<Warning("infracost", infr.stderr)>>
        ELSE <<>>

\* (f.get("severity") or f.get("severity_label") or "UNKNOWN")
severity_of(f) ==
    LET a == py_get(f, "severity", None)
        b == py_get(f, "severity_label", None)
    IN  IF py_truthy(a) THEN a
        ELSE IF py_truthy(b) THEN b
        ELSE JStr(UNKNOWN)

\* the bucket without .upper()
bucket_of_exact_case(chars) == IF chars \in Buckets THEN chars ELSE UNKNOWN

\* the bucket line 95-96 computes for a severity text
bucket_of(chars) ==
    LET sev == str_upper(chars)
    IN  IF sev \in Buckets THEN sev ELSE UNKNOWN

RECURSIVE sev_count_loop(_, _)
sev_count_loop(findings, counts) ==
    IF findings = <<>> THEN [raised |-> FALSE, counts |-> counts]
    ELSE LET f == Head(findings)
         IN  IF f.t # "dict" THEN [raised |-> TRUE, counts |-> counts]
             ELSE LET raw == severity_of(f)
                  IN  IF raw.t # "str" THEN [raised |-> TRUE, counts |-> counts]
                      ELSE LET sev == bucket_of(raw.s)
                           IN  sev_count_loop(Tail(findings),
                                   [counts EXCEPT ![sev] = @ + 1])

\* lines 92-98; findings is whatever value the caller took from the document
sev_count(findings) ==
    IF ~py_iterable(findings) THEN [raised |-> TRUE, counts |-> ZeroCounts]
    ELSE sev_count_loop(py_elements(findings), ZeroCounts)

\* len(findings)
py_len(j) ==
    CASE j.t = "list" -> [raised |-> FALSE, n |-> Len(j.l)]
      [] j.t = "str" -> [raised |-> FALSE, n |-> Len(j.s)]
      [] j.t = "dict" -> [raised |-> FALSE, n |-> Cardinality(py_keys(j))]
      [] OTHER -> [raised |-> TRUE, n |-> 0]

\* findings[:5]: a dict cannot be sliced
py_first(j, n) ==
    CASE j.t = "list" ->
            [raised |-> FALSE,
             items |-> SubSeq(j.l, 1, IF Len(j.l) < n THEN Len(j.l) ELSE n)]
      [] j.t = "str" ->
            [raised |-> FALSE,
             items |-> SubSeq(py_elements(j), 1,
                              IF Len(j.s) < n THEN Len(j.s) ELSE n)]
      [] OTHER -> [raised |-> TRUE, items |-> <<>>]

\* lines 104-111: the projection of the first findings
top_issues(findings, id_key) ==
    LET first == py_first(findings, TopN)
    IN  IF first.raised \/ \E n \in 1..Len(first.items) : first.items[n].t # "dict"
        THEN [raised |-> TRUE, items |-> <<>>]
        ELSE [raised |-> FALSE,
              items |-> [n \in 1..Len(first.items) |->
                           [id |-> py_get(first.items[n], id_key, None),
                            severity |-> py_get(first.items[n], "severity", None),
                            resource |-> py_get(first.items[n], "resource", None)]]]

\* aggregate(results): raised when an exception leaves it, else agg is the
\* dict it returns
aggregate(results) ==
    LET tf == tfsec_findings(results)
        ck == checkov_findings(results)
        cost == infracost_total(results)
        tf_len == py_len(tf)
        tf_sev == sev_count(tf)
        ck_sev == sev_count(JList(ck.items))
        tf_top == top_issues(tf, "rule_id")
        ck_top == top_issues(JList(ck.items), "check_id")
    IN  IF \/ ck.raised \/ cost.raised
           \/ tf_len.raised \/ tf_sev.raised \/ ck_sev.raised
           \/ tf_top.raised \/ ck_top.raised
        THEN [raised |-> TRUE]
        ELSE [raised |-> FALSE,
              agg |-> [warnings |-> tfsec_warnings(results)
                                    \o checkov_warnings(results)
                                    \o infracost_warnings(results),
                       tfsec |-> [count |-> tf_len.n,
                                  severities |-> tf_sev.counts],
                       checkov |-> [count |-> Len(ck.items),
                                    severities |-> ck_sev.counts],
                       infracost |-> [monthly_cost |-> cost.total],
                       top_tfsec |-> tf_top.items,
                       top_checkov |-> ck_top.items]]

(***************************************************************************)
(* The environment of one run: what _which and subprocess.run do for each  *)
(* tool, and what the planning service answers.                            *)
(***************************************************************************)
Json(doc) == [text |-> "json", doc |-> doc]
NotJson == [text |-> "not json"]

Exited(code, stdout, stderr) ==
    [spawn |-> TRUE, code |-> code, stdout |-> stdout, stderr |-> stderr]
SpawnError == [spawn |-> FALSE, stderr |-> "[Errno 8] Exec format error"]

Finding(severity) == [t |-> "dict", severity |-> severity]
TfsecDoc(res) == [t |-> "dict", results |-> res]
CheckovDoc(checks) ==
    [t |-> "dict", results |-> [t |-> "dict", failed_checks |-> checks]]
Project(cost) ==
    [t |-> "dict", summary |-> [t |-> "dict", totalMonthlyCost |-> cost]]
InfracostDoc(projects) == [t |-> "dict", projects |-> projects]

\* terraform: each of init, plan and show exits 0, exits 1 or cannot start;
\* show prints the plan as JSON when it exits 0
TerraformProcs ==
    {<<a, b, c>> :
        a \in {Exited(0, NotJson, ""), Exited(1, NotJson, "init failed"),
               SpawnError},
        b \in {Exited(0, NotJson, ""), Exited(1, NotJson, "plan failed"),
               SpawnError},
        c \in {Exited(0, Json([t |-> "dict",
                               format_version |-> JStr(<<"1">>)]), ""),
               Exited(1, NotJson, "show failed"), SpawnError}}

TfsecProcs ==
    {Exited(0, Json(TfsecDoc(None)), ""),
     Exited(0, Json(TfsecDoc(JList(<<>>))), ""),
     Exited(1, Json(TfsecDoc(JList(<<Finding(JStr(<<"H","I","G","H">>))>>))), ""),
     Exited(1, NotJson, "tfsec failed"),
     SpawnError}

CheckovProcs ==
    {Exited(0, Json(CheckovDoc(JList(<<>>))), ""),
     Exited(1, Json(JList(<<CheckovDoc(JList(<<Finding(None)>>))>>)), ""),
     Exited(1, NotJson, "checkov failed"),
     SpawnError}

InfracostProcs ==
    {Exited(0, Json(InfracostDoc(JList(<<Project(JStr(<<"1","2","0">>)),
                                         Project(JStr(<<"8","0">>))>>))), ""),
     Exited(0, Json(InfracostDoc(JList(<<Project(None)>>))), ""),
     Exited(1, NotJson, "infracost failed"),
     SpawnError}

ToolName ==
    {"terraform_plan", "tfsec", "checkov", "conftest", "infracost", "gitleaks"}

PlanStep(tool) == [tool |-> tool]

RECURSIVE SeqsUpTo(_, _)
SeqsUpTo(S, n) ==
    IF n = 0 THEN {<<>>}
    ELSE LET shorter == SeqsUpTo(S, n - 1)
         IN  shorter \cup {Append(q, x) : q \in shorter, x \in S}

\* what llm.with_structured_output(ReviewPlan).invoke does: it raises (the
\* transport fails, or the answer does not validate as a ReviewPlan), or it
\* returns a ReviewPlan
PlannerAnswers ==
    {[raised |-> TRUE, e |-> "Connection error."],
     [raised |-> TRUE, e |-> "1 validation error for ReviewPlan"]}
    \cup {[raised |-> FALSE,
           plan |-> [steps |-> q, justification |-> <<Lit("as planned")>>]] :
             q \in SeqsUpTo({PlanStep(tool) : tool \in ToolName}, MaxPlanLen)}

\* what llm.invoke(...).content does in synth_node: it raises, or it is the
\* report text (a sequence of lines), possibly empty
SynthAnswers ==
    {[raised |-> TRUE, e |-> "Connection error."],
     [raised |-> FALSE, content |-> <<>>],
     [raised |-> FALSE, content |-> <<<<Lit("## Review")>>>>]}

(***************************************************************************)
(* models.py and graph.py: the state of a run.                             *)
(***************************************************************************)
VARIABLES
    OPENAI_API_KEY,  \* whether the environment holds a non-empty API key
    ctx,             \* AgentState.ctx
    plan,            \* AgentState.plan
    findings,        \* AgentState.findings
    synthesis,       \* AgentState.synthesis
    patch,           \* AgentState.patch
    pc,              \* the node of the graph to run next
    idx,             \* tools_node: position of the loop in `ordered`
    results,         \* tools_node: the local dict `results`
    agg,             \* the outcome of the last call of aggregate
    calls,           \* the runner functions called so far, in order, each
                     \* with what _which answered
    tfRuns,          \* one entry per call of terraform_plan
    answer           \* what the planning service answered to planner_node

vars == <<OPENAI_API_KEY, ctx, plan, findings, synthesis, patch, pc, idx,
          results, agg, calls, tfRuns, answer>>

\* Findings() of models.py
Findings(tfsec, checkov, terraform, infracost, warnings) ==
    [tfsec |-> tfsec, checkov |-> checkov, terraform |-> terraform,
     conftest |-> EmptyDict, infracost |-> infracost, gitleaks |-> EmptyDict,
     warnings |-> warnings]

DefaultSteps ==
    <<PlanStep("terraform_plan"), PlanStep("tfsec"), PlanStep("checkov"),
      PlanStep("infracost")>>

\* _llm(): None without an API key or when the client cannot be built
LlmOutcomes == IF OPENAI_API_KEY THEN {"client", "None"} ELSE {"None"}

Init ==
    /\ OPENAI_API_KEY \in BOOLEAN
    /\ ctx = [repo_dir |-> "repo", diff_summary |-> None,
              policy_snippets |-> None]
    /\ plan = None
    /\ findings = Findings(EmptyDict, EmptyDict, EmptyDict, EmptyDict, <<>>)
    /\ synthesis = None
    /\ patch = None
    /\ pc = "planner"
    /\ idx = 1
    /\ results = EmptyDict
    /\ agg = None
    /\ calls = <<>>
    /\ tfRuns = <<>>
    /\ answer = None

(***************************************************************************)
(* graph.py: planner_node.                                                 *)
(***************************************************************************)
\* planner_node without the check `if not plan.steps`
planned_unchecked(llm, ans) ==
    IF llm = "None"
    THEN [steps |-> DefaultSteps,
          justification |->
              <<Lit("Deterministic fallback (no LLM/model unavailable).")>>]
    ELSE IF ans.raised
    THEN [steps |-> DefaultSteps,
          justification |->
              <<Lit("LLM planning failed: "), Lit(ans.e),
                Lit(". Using default plan.")>>]
    ELSE ans.plan

\* the plan planner_node stores, given _llm() and the service's answer
planned(llm, ans) ==
    IF llm = "None"
    THEN [steps |-> DefaultSteps,
          justification |->
              <<Lit("Deterministic fallback (no LLM/model unavailable).")>>]
    ELSE IF ans.raised
    THEN [steps |-> DefaultSteps,
          justification |->
              <<Lit("LLM planning failed: "), Lit(ans.e),
                Lit(". Using default plan.")>>]
    ELSE IF ans.plan.steps = <<>>
    THEN [steps |-> DefaultSteps,
          justification |->
              <<Lit("LLM planning failed: "),
                Lit("LLM returned an empty plan."),
                Lit(". Using default plan.")>>]
    ELSE ans.plan

planner_node ==
    /\ pc = "planner"
    /\ \E llm \in LlmOutcomes :
         \E ans \in IF llm = "None" THEN {None} ELSE PlannerAnswers :
            /\ plan' = planned(llm, ans)
            /\ answer' = ans
    /\ pc' = "tools"
    /\ UNCHANGED <<OPENAI_API_KEY, ctx, findings, synthesis, patch, idx,
                   results, agg, calls, tfRuns>>

(***************************************************************************)
(* graph.py: tools_node.                                                   *)
(***************************************************************************)
\* key=lambda s: 0 if s.tool == "terraform_plan" else 1
step_key(step) == IF step.tool = "terraform_plan" THEN 0 ELSE 1

\* an insertion that is not stable: item goes before the elements of its
\* own key
RECURSIVE insert_before_equal(_, _)
insert_before_equal(sorted, item) ==
    IF sorted = <<>> THEN <<item>>
    ELSE IF step_key(Head(sorted)) < step_key(item)
    THEN <<Head(sorted)>> \o insert_before_equal(Tail(sorted), item)
    ELSE <<item>> \o sorted

\* one insertion of Python's stable sort: item goes behind every element
\* whose key is not greater than its own
RECURSIVE insert_by_key(_, _)
insert_by_key(sorted, item) ==
    IF sorted = <<>> THEN <<item>>
    ELSE IF step_key(Head(sorted)) <= step_key(item)
    THEN <<Head(sorted)>> \o insert_by_key(Tail(sorted), item)
    ELSE <<item>> \o sorted

RECURSIVE py_sorted(_)
py_sorted(steps) ==
    IF steps = <<>> THEN <<>>
    ELSE insert_by_key(py_sorted(SubSeq(steps, 1, Len(steps) - 1)),
                       steps[Len(steps)])

\* lines 88-90: steps and ordered
ordered == py_sorted(IF plan # None THEN plan.steps ELSE <<>>)

\* results[key] = value
py_set(d, key, value) ==
    [k \in DOMAIN d \cup {key} |-> IF k = key THEN value ELSE d[k]]

\* what a call of a runner function leaves in the log calls
Call(tool, which) == [tool |-> tool, which |-> which]

\* what a call of terraform_plan leaves in the log tfRuns
TfRun(which, run) ==
    [which |-> which, spawned |-> run.spawned,
     ok |-> py_get(run.ret, "ok", FALSE)]

\* lines 92-102: one iteration of the loop over `ordered`
tools_node_step ==
    /\ pc = "tools"
    /\ idx <= Len(ordered)
    /\ LET tool == ordered[idx].tool
       IN  \E which \in BOOLEAN :
             CASE tool = "terraform_plan" ->
                    \E procs \in TerraformProcs :
                       LET run == terraform_plan(which, procs)
                       IN  /\ results' = py_set(results, "terraform", run.ret)
                           /\ tfRuns' = Append(tfRuns, TfRun(which, run))
                           /\ calls' = Append(calls, Call(tool, which))
               [] tool = "tfsec" ->
                    \E proc \in TfsecProcs :
                       /\ results' = py_set(results, "tfsec",
                                            tfsec_scan(which, proc))
                       /\ calls' = Append(calls, Call(tool, which))
                       /\ UNCHANGED tfRuns
               [] tool = "checkov" ->
                    \E proc \in CheckovProcs :
                       /\ results' = py_set(results, "checkov",
                                            checkov_scan(which, proc))
                       /\ calls' = Append(calls, Call(tool, which))
                       /\ UNCHANGED tfRuns
               [] tool = "infracost" ->
                    \E proc \in InfracostProcs :
                       /\ results' = py_set(results, "infracost",
                                            infracost_breakdown(which, proc))
                       /\ calls' = Append(calls, Call(tool, which))
                       /\ UNCHANGED tfRuns
               [] OTHER ->
                    UNCHANGED <<results, calls, tfRuns>>
    /\ idx' = idx + 1
    /\ UNCHANGED <<OPENAI_API_KEY, ctx, plan, findings, synthesis, patch, pc,
                   agg, answer>>

\* lines 104-112: aggregate the results into state.findings; an exception
\* leaving aggregate leaves tools_node, graph.invoke and main
tools_node_aggregate ==
    /\ pc = "tools"
    /\ idx > Len(ordered)
    /\ agg' = aggregate(results)
    /\ IF agg'.raised
       THEN /\ pc' = "raised"
            /\ UNCHANGED findings
       ELSE /\ pc' = "synth"
            /\ findings' =
                 Findings(py_get(agg'.agg, "tfsec", EmptyDict),
                          py_get(agg'.agg, "checkov", EmptyDict),
                          py_get(results, "terraform", EmptyDict),
                          py_get(agg'.agg, "infracost", EmptyDict),
                          py_get(agg'.agg, "warnings", <<>>))
    /\ UNCHANGED <<OPENAI_API_KEY, ctx, plan, synthesis, patch, idx, results,
                   calls, tfRuns, answer>>

(***************************************************************************)
(* graph.py: synth_node and patcher_node.                                  *)
(***************************************************************************)
\* str(value) inside an f-string
py_str(v) ==
    CASE v.t = "None" -> Lit("None")
      [] v.t = "str" -> [chars |-> v.s]
      [] v.t = "float" -> [float |-> v.f]
      [] OTHER -> [value |-> v]

\* "; ".join(texts)
RECURSIVE py_join(_)
py_join(texts) ==
    IF texts = <<>> THEN <<>>
    ELSE IF Len(texts) = 1 THEN texts[1]
    ELSE texts[1] \o <<Lit("; ")>> \o py_join(Tail(texts))

\* lines 117-130: the report without a planning service, as the list md of
\* its lines (joined by "\n\n")
deterministic_report(f) ==
    <<<<Lit("# InfraGuardian Report (deterministic)")>>,
      <<Lit("**tfsec**: "), [int |-> py_get(f.tfsec, "count", 0)],
        Lit(" issues - "),
        [dict |-> py_get(f.tfsec, "severities", EmptyDict)]>>,
      <<Lit("**Checkov**: "), [int |-> py_get(f.checkov, "count", 0)],
        Lit(" issues - "),
        [dict |-> py_get(f.checkov, "severities", EmptyDict)]>>,
      <<Lit("**Estimated Monthly Cost**: "),
        py_str(py_get(f.infracost, "monthly_cost",
                      JStr(<<"u","n","a","v","a","i","l","a","b","l","e">>)))>>
    >> \o (IF f.warnings # <<>>
           THEN <<<<Lit("> Warnings: ")>> \o py_join(f.warnings)>>
           ELSE <<>>)

\* lines 147-156: the report when the planning service fails
fallback_report(f, e) ==
    <<<<Lit("# InfraGuardian Report (fallback)")>>,
      <<Lit("LLM synthesis failed: "), Lit(e)>>,
      <<Lit("- tfsec: "), [dict |-> f.tfsec]>>,
      <<Lit("- checkov: "), [dict |-> f.checkov]>>,
      <<Lit("- cost: "), [dict |-> f.infracost]>>>>

\* the markdown synth_node stores, given _llm() and the service's answer
synthesized(llm, ans) ==
    IF llm = "None" THEN deterministic_report(findings)
    ELSE IF ans.raised THEN fallback_report(findings, ans.e)
    ELSE IF ans.content # <<>> THEN ans.content
    ELSE <<<<Lit("(empty)")>>>>

synth_node ==
    /\ pc = "synth"
    /\ \E llm \in LlmOutcomes :
         \E ans \in IF llm = "None" THEN {None} ELSE SynthAnswers :
            synthesis' = [markdown |-> synthesized(llm, ans)]
    /\ pc' = "patch"
    /\ UNCHANGED <<OPENAI_API_KEY, ctx, plan, findings, patch, idx, results,
                   agg, calls, tfRuns, answer>>

\* patcher_node returning a fresh state that carries only ctx and patch
patcher_node_fresh_state ==
    /\ pc = "patch"
    /\ patch' = [patch_unified_diff |-> None,
                 notes |-> Lit("Auto-fix patch generation arrives in the next milestone.")]
    /\ plan' = None
    /\ findings' = Findings(EmptyDict, EmptyDict, EmptyDict, EmptyDict, <<>>)
    /\ synthesis' = None
    /\ pc' = "END"
    /\ UNCHANGED <<OPENAI_API_KEY, ctx, idx, results, agg, calls, tfRuns,
                   answer>>

patcher_node ==
    /\ pc = "patch"
    /\ patch' = [patch_unified_diff |-> None,
                 notes |-> Lit("Auto-fix patch generation arrives in the next milestone.")]
    /\ pc' = "END"
    /\ UNCHANGED <<OPENAI_API_KEY, ctx, plan, findings, synthesis, idx,
                   results, agg, calls, tfRuns, answer>>

(***************************************************************************)
(* graph.py: build_graph: planner -> tools -> synth -> patch -> END.       *)
(***************************************************************************)
Next ==
    \/ planner_node
    \/ tools_node_step
    \/ tools_node_aggregate
    \/ synth_node
    \/ patcher_node

Spec == Init /\ [][Next]_vars

(***************************************************************************)
(* aggregate on its own: the results mappings it is applied to.            *)
(*                                                                         *)
(* Each entry of the mapping is what the runner function of the tool       *)
(* returns for some behaviour of the tool's process, or is missing from    *)
(* the mapping.  One entry at a time ranges over every document below;     *)
(* the other two range over the basic outcomes.                            *)
(***************************************************************************)
\* the findings a scanner may list: with a severity in some letter case,
\* with none, with one this code does not know, with the severity under
\* the second field name, with a severity that is not text, and an element
\* that is not a mapping at all
FindingValues ==
    {[t |-> "dict"],
     Finding(None),
     Finding(JStr(<<"c","r","i","t","i","c","a","l">>)),
     Finding(JStr(<<"H","i","g","h">>)),
     Finding(JStr(<<"M","E","D","I","U","M">>)),
     Finding(JStr(<<"l","o","w">>)),
     Finding(JStr(<<"b","o","g","u","s">>)),
     [t |-> "dict", severity_label |-> JStr(<<"h","i","g","h">>)],
     [t |-> "dict", severity |-> JStr(<<>>),
      severity_label |-> JStr(<<"L","O","W">>)],
     [t |-> "dict", severity |-> JStr(<<"b","o","g","u","s">>),
      severity_label |-> JStr(<<"H","I","G","H">>)],
     Finding(JInt(3)),
     JStr(<<"x">>)}

FindingLists == {JList(q) : q \in SeqsUpTo(FindingValues, MaxFindings)}

\* values found where a list is expected
NotALists == {None, JInt(0), JStr(<<>>), JStr(<<"x">>), JDict,
              [t |-> "dict", note |-> JStr(<<"x">>)]}

TfsecDocs ==
    {TfsecDoc(res) : res \in FindingLists \cup NotALists}
    \cup {JDict, JList(<<>>), JList(<<JInt(1)>>), JInt(1)}

CheckovDocs ==
    {CheckovDoc(checks) : checks \in FindingLists \cup NotALists}
    \cup {JList(<<CheckovDoc(JList(<<a>>)), CheckovDoc(JList(<<b>>))>>) :
             a \in FindingValues, b \in FindingValues}
    \cup {JDict, JList(<<>>), JList(<<JInt(1)>>), JInt(1),
          [t |-> "dict", results |-> None],
          [t |-> "dict", results |-> JList(<<>>)],
          [t |-> "dict", results |-> JDict],
          JList(<<JDict, CheckovDoc(JList(<<Finding(None)>>))>>)}

ProjectValues ==
    {Project(JStr(<<"1","2","0">>)), Project(JStr(<<"8","0">>)),
     Project(JInt(0)), Project(None), Project(JStr(<<"n","/","a">>)),
     JDict, [t |-> "dict", summary |-> None], JInt(1)}

InfracostDocs ==
    {InfracostDoc(JList(q)) : q \in SeqsUpTo(ProjectValues, MaxFindings)}
    \cup {InfracostDoc(None), JDict, JList(<<>>),
          JList(<<Project(JStr(<<"8","0">>))>>), JInt(1)}

\* an entry missing from the mapping
Missing == [missing |-> TRUE]

FailedProcs == {Exited(1, NotJson, "failed"), Exited(0, NotJson, ""),
                SpawnError}

TfsecResults ==
    {Missing, tfsec_scan(FALSE, SpawnError)}
    \cup {tfsec_scan(TRUE, proc) : proc \in FailedProcs}
    \cup {tfsec_scan(TRUE, Exited(0, Json(doc), "")) : doc \in TfsecDocs}

CheckovResults ==
    {Missing, checkov_scan(FALSE, SpawnError)}
    \cup {checkov_scan(TRUE, proc) : proc \in FailedProcs}
    \cup {checkov_scan(TRUE, Exited(0, Json(doc), "")) : doc \in CheckovDocs}

InfracostResults ==
    {Missing, infracost_breakdown(FALSE, SpawnError)}
    \cup {infracost_breakdown(TRUE, proc) : proc \in FailedProcs}
    \cup {infracost_breakdown(TRUE, Exited(0, Json(doc), "")) :
             doc \in InfracostDocs}

BasicTfsec ==
    {Missing, tfsec_scan(FALSE, SpawnError),
     tfsec_scan(TRUE, Exited(1, NotJson, "failed")),
     tfsec_scan(TRUE, Exited(1, Json(TfsecDoc(JList(
         <<Finding(JStr(<<"H","I","G","H">>))>>))), ""))}

BasicCheckov ==
    {Missing, checkov_scan(FALSE, SpawnError),
     checkov_scan(TRUE, Exited(1, NotJson, "failed")),
     checkov_scan(TRUE, Exited(1, Json(CheckovDoc(JList(
         <<Finding(None)>>))), ""))}

BasicInfracost ==
    {Missing, infracost_breakdown(FALSE, SpawnError),
     infracost_breakdown(TRUE, Exited(1, NotJson, "failed")),
     infracost_breakdown(TRUE, Exited(0, Json(InfracostDoc(JList(
         <<Project(JStr(<<"8","0">>))>>))), ""))}

\* the mapping with the entries that are not missing
ResultsOf(tfsec, checkov, infracost) ==
    LET entry == [k \in {"tfsec", "checkov", "infracost"} |->
                    CASE k = "tfsec" -> tfsec
                      [] k = "checkov" -> checkov
                      [] OTHER -> infracost]
    IN  [k \in {n \in DOMAIN entry : entry[n] # Missing} |-> entry[k]]

InitAgg ==
    /\ OPENAI_API_KEY = FALSE
    /\ ctx = [repo_dir |-> "repo", diff_summary |-> None,
              policy_snippets |-> None]
    /\ plan = None
    /\ findings = Findings(EmptyDict, EmptyDict, EmptyDict, EmptyDict, <<>>)
    /\ synthesis = None
    /\ patch = None
    /\ pc = "aggregate"
    /\ idx = 1
    /\ \E focus \in {"tfsec", "checkov", "infracost"} :
         \E tfsec \in IF focus = "tfsec" THEN TfsecResults ELSE BasicTfsec :
           \E checkov \in IF focus = "checkov" THEN CheckovResults
                          ELSE BasicCheckov :
             \E infracost \in IF focus = "infracost" THEN InfracostResults
                              ELSE BasicInfracost :
               results = ResultsOf(tfsec, checkov, infracost)
    /\ agg = None
    /\ calls = <<>>
    /\ tfRuns = <<>>
    /\ answer = None

aggregate_call ==
    /\ pc = "aggregate"
    /\ agg' = aggregate(results)
    /\ pc' = "returned"
    /\ UNCHANGED <<OPENAI_API_KEY, ctx, plan, findings, synthesis, patch, idx,
                   results, calls, tfRuns, answer>>

NextAgg == aggregate_call

SpecAgg == InitAgg /\ [][NextAgg]_vars

(***************************************************************************)
(* Properties of the pipeline (specification Spec).                        *)
(***************************************************************************)
AfterPlanner == pc # "planner"

\* tools_node has returned state.findings
AfterTools == pc \in {"synth", "patch", "END"}

\* the planning service was not consulted, or its call failed, or it
\* returned a plan without steps
PlanningFailed ==
    IF answer = None THEN TRUE
    ELSE IF answer.raised THEN TRUE
    ELSE answer.plan.steps = <<>>

\* C2: planner_node always leaves a plan with at least one step: exactly
\* the default steps terraform_plan, tfsec, checkov, infracost when no
\* planning service is configured and whenever the service fails (it
\* raises, its answer does not validate, or its plan has no steps); the
\* service's own plan only when that plan has at least one step.
PlannerLeavesPlan ==
    AfterPlanner =>
        /\ plan # None
        /\ Len(plan.steps) >= 1
        /\ PlanningFailed =>
              plan.steps = <<[tool |-> "terraform_plan"], [tool |-> "tfsec"],
                             [tool |-> "checkov"], [tool |-> "infracost"]>>
        /\ ~PlanningFailed => plan = answer.plan

\* the planning service returned a plan with no steps and planner_node put
\* the default plan in its place
EmptyPlanReplaced ==
    /\ AfterPlanner
    /\ answer # None
    /\ IF answer # None /\ ~answer.raised
       THEN answer.plan.steps = <<>> ELSE FALSE
    /\ plan.steps = DefaultSteps

Runnable == {"terraform_plan", "tfsec", "checkov", "infracost"}

IsTerraformPlan(tool) == tool = "terraform_plan"
IsOtherRunnable(tool) == tool \in Runnable /\ tool # "terraform_plan"

PlanTools == [n \in 1..Len(plan.steps) |-> plan.steps[n].tool]
CalledTools == [n \in 1..Len(calls) |-> calls[n].tool]

\* the order the plan asks for: its terraform_plan steps, then its other
\* steps that have a runner, as they appear in the plan
PlanOrder ==
    SelectSeq(PlanTools, IsTerraformPlan)
    \o SelectSeq(PlanTools, IsOtherRunnable)

\* C5: tools_node calls the runners so that every terraform_plan step runs
\* before any other tool and the remaining tools run in the order of the
\* plan, one call per step, whatever the plan: at every point of the loop
\* the calls made are a prefix of that order, and all of it once the loop
\* has ended.
ToolsRunInPlanOrder ==
    IF plan = None THEN calls = <<>>
    ELSE /\ Len(calls) <= Len(PlanOrder)
         /\ CalledTools = SubSeq(PlanOrder, 1, Len(calls))
         /\ (pc # "tools" \/ idx > Len(plan.steps)) =>
                CalledTools = PlanOrder

\* a plan that lists terraform_plan last, behind two other tools in
\* non-alphabetical order, has been executed
TerraformListedLastRan ==
    /\ AfterTools
    /\ PlanTools = <<"tfsec", "checkov", "terraform_plan">>
    /\ CalledTools = <<"terraform_plan", "tfsec", "checkov">>

SubSteps == <<"init", "plan", "show">>

\* C9: every call of terraform_plan starts its processes in the order
\* init, plan, show, each only after the one before exited with code 0;
\* with the binary missing it starts none; after a non-zero init or plan
\* it starts no further one; and in each of these cases, and when show
\* exits non-zero, the result has ok = false.
TerraformSubStepsInOrder ==
    \A n \in 1..Len(tfRuns) :
        LET run == tfRuns[n]
            failed == \E k \in 1..Len(run.spawned) : run.spawned[k].code # 0
        IN  /\ Len(run.spawned) <= 3
            /\ \A k \in 1..Len(run.spawned) :
                  /\ run.spawned[k].cmd[1] = "terraform"
                  /\ run.spawned[k].cmd[2] = SubSteps[k]
                  /\ k > 1 => run.spawned[k - 1].code = 0
            /\ ~run.which => run.spawned = <<>>
            /\ (run.which /\ ~failed) => Len(run.spawned) = 3
            /\ (~run.which \/ failed) => ~run.ok

\* terraform's plan sub-step exited non-zero: init and plan were started,
\* show was not
PlanSubStepFailed ==
    \E n \in 1..Len(tfRuns) :
        /\ tfRuns[n].which
        /\ Len(tfRuns[n].spawned) = 2
        /\ tfRuns[n].spawned[2].code = 1
        /\ ~tfRuns[n].ok

\* C10: single writer per field: a step of planner_node changes no field of
\* the state but plan, a step of tools_node none but findings, synth_node
\* none but synthesis, patcher_node none but patch; no stage changes ctx.
SingleWriterPerField ==
    [][/\ ctx' = ctx
       /\ pc = "planner" => UNCHANGED <<findings, synthesis, patch>>
       /\ pc = "tools" => UNCHANGED <<plan, synthesis, patch>>
       /\ pc = "synth" => UNCHANGED <<plan, findings, patch>>
       /\ pc = "patch" => UNCHANGED <<plan, findings, synthesis>>]_vars

\* a run in which every stage has written its field
EveryStageWrote ==
    /\ pc = "END"
    /\ plan # None
    /\ findings.warnings # <<>>
    /\ synthesis # None
    /\ patch # None

\* the default plan was executed with none of the four binaries on the path
DefaultPlanAllMissing ==
    /\ pc \notin {"planner", "tools"}
    /\ IF plan = None THEN FALSE ELSE plan.steps = DefaultSteps
    /\ Len(calls) = 4
    /\ \A n \in 1..Len(calls) : ~calls[n].which

WarningText(tool, message) == <<[lit |-> tool], [lit |-> ": "], [lit |-> message]>>

\* what C4 says of the executor and of every field but the warnings: four
\* failed results carrying "<tool> not found", no issues, no monthly cost
AllMissingResults ==
    /\ AfterTools
    /\ results = [terraform |-> [ok |-> FALSE, stderr |-> "terraform not found"],
                  tfsec |-> [ok |-> FALSE, stderr |-> "tfsec not found"],
                  checkov |-> [ok |-> FALSE, stderr |-> "checkov not found"],
                  infracost |-> [ok |-> FALSE, stderr |-> "infracost not found"]]
    /\ findings.tfsec.count = 0
    /\ findings.checkov.count = 0
    /\ findings.infracost.monthly_cost = None

\* C4 as stated: with all four binaries missing and the default plan, the
\* findings carry exactly 2 warnings, for tfsec and for checkov; the
\* missing cost tool adds none.
AllMissingTwoWarnings ==
    DefaultPlanAllMissing =>
        /\ AllMissingResults
        /\ findings.warnings = <<WarningText("tfsec", "tfsec not found"),
                                 WarningText("checkov", "checkov not found")>>

\* C4 as amended: with all four binaries missing and the default plan, the
\* findings carry exactly 3 warnings, for tfsec, checkov and infracost in
\* that order; only the missing terraform adds none.
AllMissingThreeWarnings ==
    DefaultPlanAllMissing =>
        /\ AllMissingResults
        /\ Len(findings.warnings) = 3
        /\ findings.warnings =
              <<WarningText("tfsec", "tfsec not found"),
                WarningText("checkov", "checkov not found"),
                WarningText("infracost", "infracost not found")>>

\* the run of the default plan with no binary on the path has reached synth
AllMissingAggregated == DefaultPlanAllMissing /\ pc = "synth"

\* C1: no stage aborts the run, every run ends, and at its end
\* state.synthesis holds a non-empty markdown text.
RunEndsWithReport ==
    /\ pc # "raised"
    /\ pc = "END" \/ ENABLED Next
    /\ pc = "END" =>
          /\ synthesis # None
          /\ IF synthesis = None THEN FALSE ELSE synthesis.markdown # <<>>

\* the last process of the tool was started by its runner and failed: it
\* exited non-zero or could not be spawned (code -1)
ExecutionFailed(tool) ==
    IF tool \in DOMAIN results
    THEN IF "raw" \in DOMAIN results[tool]
         THEN results[tool].raw.code # 0
         ELSE FALSE
    ELSE FALSE

\* C3: when the process of tfsec, checkov or infracost, its binary present,
\* exits non-zero or cannot be spawned, the findings carry a warning for
\* that tool.
ExecutionFailureWarns ==
    AfterTools =>
        \A tool \in {"tfsec", "checkov", "infracost"} :
            ExecutionFailed(tool) =>
                \E n \in 1..Len(findings.warnings) :
                    findings.warnings[n][1] = [lit |-> tool]

\* C7: without a planning service the report's cost line reads
\* "unavailable" when the aggregated monthly cost is absent, and the total
\* otherwise.
CostLineSaysUnavailable ==
    (~OPENAI_API_KEY /\ pc \in {"patch", "END"}) =>
        LET line == synthesis.markdown[4]
            cost == findings.infracost.monthly_cost
        IN  /\ line[1] = [lit |-> "**Estimated Monthly Cost**: "]
            /\ line[2] = IF cost = None
                         THEN [chars |-> <<"u","n","a","v","a","i","l","a","b","l","e">>]
                         ELSE [float |-> cost.f]

(***************************************************************************)
(* Properties of aggregate (specification SpecAgg).                        *)
(***************************************************************************)
Returned == pc = "returned"

\* the tool's entry gives aggregate no findings to use: it is missing from
\* the mapping, or the tool failed or printed no JSON (json is None)
NoUsableFindings(tool) ==
    IF tool \in DOMAIN results
    THEN py_get(results[tool], "json", None) = None
    ELSE TRUE

\* C6: aggregate never raises, whatever the shape of each tool's entry,
\* and a category without usable findings gets count 0 and five buckets 0.
AggregateNeverRaises ==
    Returned =>
        /\ ~agg.raised
        /\ \A tool \in {"tfsec", "checkov"} :
              NoUsableFindings(tool) =>
                  IF agg.raised THEN FALSE
                  ELSE /\ agg.agg[tool].count = 0
                       /\ \A b \in Buckets : agg.agg[tool].severities[b] = 0

\* the findings aggregate has collected for a category
Listed(tool) ==
    IF tool = "tfsec" THEN py_elements(tfsec_findings(results))
    ELSE checkov_findings(results).items

\* the two texts are the same word, letter case aside
SameWord(a, b) ==
    /\ Len(a) = Len(b)
    /\ \A n \in 1..Len(a) :
          \/ a[n] = b[n]
          \/ \E k \in 1..26 : {a[n], b[n]} = {LowerChars[k], UpperChars[k]}

\* the bucket a severity text names, UNKNOWN when it names none
NamedBucket(text) ==
    IF \E b \in Buckets : SameWord(text, b)
    THEN CHOOSE b \in Buckets : SameWord(text, b)
    ELSE UNKNOWN

\* the finding gives a value under the key: the key is there and its value
\* is neither None nor the empty text
Gives(f, key) == key \in DOMAIN f /\ f[key] \notin {None, JStr(<<>>)}

\* the bucket of a finding by its severity field alone
BucketBySeverity(f) ==
    IF Gives(f, "severity") THEN NamedBucket(f.severity.s) ELSE UNKNOWN

\* the bucket of a finding by its severity field, or by its severity_label
\* field when it gives no severity
BucketByEitherField(f) ==
    IF Gives(f, "severity") THEN NamedBucket(f.severity.s)
    ELSE IF Gives(f, "severity_label") THEN NamedBucket(f.severity_label.s)
    ELSE UNKNOWN

SumOfBuckets(counts) ==
    counts[CRITICAL] + counts[HIGH] + counts[MEDIUM] + counts[LOW]
    + counts[UNKNOWN]

\* C8 as stated: in every Findings aggregate produces, for tfsec and for
\* checkov, the five buckets sum to the issue count and each finding is
\* counted once, in the bucket its severity names in any letter case, in
\* UNKNOWN when its severity is absent or unrecognized.
BucketsBySeverityField ==
    (Returned /\ ~agg.raised) =>
        \A tool \in {"tfsec", "checkov"} :
            LET got == agg.agg[tool]
            IN  /\ SumOfBuckets(got.severities) = got.count
                /\ got.count = Len(Listed(tool))
                /\ \A b \in Buckets :
                      got.severities[b] =
                          Cardinality({n \in 1..Len(Listed(tool)) :
                                          BucketBySeverity(Listed(tool)[n]) = b})

\* C8 as amended: the same, the severity of a finding being the value of
\* its severity field or, when that field is absent or empty, of its
\* severity_label field; UNKNOWN only when both are absent or the value
\* names no bucket.
BucketsByEitherField ==
    (Returned /\ ~agg.raised) =>
        \A tool \in {"tfsec", "checkov"} :
            LET got == agg.agg[tool]
            IN  /\ SumOfBuckets(got.severities) = got.count
                /\ got.count = Len(Listed(tool))
                /\ \A b \in Buckets :
                      got.severities[b] =
                          Cardinality({n \in 1..Len(Listed(tool)) :
                                          BucketByEitherField(Listed(tool)[n]) = b})

\* aggregate has counted two tfsec findings, one with its severity in lower
\* case, one with no severity field but a severity_label
LabelledFindingCounted ==
    /\ Returned
    /\ IF agg.raised THEN FALSE
       ELSE /\ agg.agg.tfsec.count = 2
            /\ agg.agg.tfsec.severities[CRITICAL] = 1
            /\ agg.agg.tfsec.severities[HIGH] = 1
    /\ \E n \in 1..Len(Listed("tfsec")) :
          /\ "severity" \notin DOMAIN Listed("tfsec")[n]
          /\ "severity_label" \in DOMAIN Listed("tfsec")[n]

====
